---- MODULE Spec2Model ----
(***************************************************************************)
(* batsignal: the battery state machine and polling loop of batsignal.c.   *)
(*                                                                         *)
(* The program is one thread: option validation, notification set-up, a    *)
(* first battery sample, then the loop  sample -> classify/dispatch ->     *)
(* wait.  SIGUSR1 is blocked and consumed by the wait; SIGTERM and SIGINT  *)
(* run a handler that calls exit(), which runs the atexit hook cleanup().  *)
(***************************************************************************)
EXTENDS Integers, Sequences, FiniteSets, TLC

(* ------------------------------------------------------------------ *)
(* Program constants                                                  *)
(* ------------------------------------------------------------------ *)
STATE_AC == 0
STATE_DISCHARGING == 1
STATE_WARNING == 2
STATE_CRITICAL == 3
STATE_DANGER == 4
STATE_FULL == 5

POWER_SUPPLY_FULL == "Full"
POWER_SUPPLY_DISCHARGING == "Discharging"

EXIT_SUCCESS == "EXIT_SUCCESS"
EXIT_FAILURE == "EXIT_FAILURE"

\* upper limit of -w, -c, -d, -f in validate_options
LevelLimit == 100
\* upper limit of -m in validate_options
MultiplierLimit == 3600
\* tmp_full of a battery that only has the capacity attribute
CapacityFull == 100

(* ------------------------------------------------------------------ *)
(* Bounds of the model                                                *)
(* ------------------------------------------------------------------ *)
\* thresholds given on the command line range over 0..MaxThreshold
MaxThreshold == 3
\* the value of a now attribute (charge_now, energy_now, capacity) is in 0..MaxNow
MaxNow == 4
\* number of batteries named with -n
MaxBatteries == 2
\* loop iterations and SIGUSR1 signals followed in a history
MaxCycles == 3
MaxWakes == 3

(* ------------------------------------------------------------------ *)
(* State                                                              *)
(* ------------------------------------------------------------------ *)
VARIABLES
  \* program operation options
  run_once, battery_required, show_notifications, show_charging_msg,
  \* thresholds, poll interval, danger command
  warning, critical, danger, full, multiplier, fixed, dangercmd,
  \* battery information; full_attribute: set_attributes finds a charge_full
  \* or energy_full attribute (else only capacity)
  amount_batteries, full_attribute, battery_discharging, battery_full, battery_state,
  battery_level, energy_now, energy_full,
  \* locals of main
  duration, previous_discharging_status,
  \* control: position of main, exit status, libnotify initialised,
  \* SIGUSR1 pending in the blocked set
  pc, exit_status, notify_initted, usr1_pending,
  \* observation of the current loop iteration: the attribute files read by
  \* update_batteries, the message or command dispatched, whether the
  \* notification was closed, battery_state on entry, whether the previous
  \* iteration sampled the same sums, level and flags, and whether an
  \* iteration has completed
  readings, dispatched, closed, previous_state, same_snapshot, polled,
  \* history of the run: loop iterations started, SIGUSR1 signals sent to
  \* the process, and those of them sent while one was already pending
  cycles, wakes, merged

options == <<run_once, battery_required, show_notifications, show_charging_msg,
             warning, critical, danger, full, multiplier, fixed, dangercmd,
             amount_batteries, full_attribute>>
battery == <<battery_discharging, battery_full, battery_level, energy_now,
             energy_full>>
observed == <<readings, dispatched, closed, previous_state, same_snapshot, polled>>
history == <<cycles, wakes, merged>>
vars == <<options, battery, battery_state, duration, previous_discharging_status,
          pc, exit_status, notify_initted, usr1_pending, observed, history>>

(* ------------------------------------------------------------------ *)
(* Integer helpers                                                    *)
(* ------------------------------------------------------------------ *)
\* faulty variant: the quotient is truncated, as by an integer division
RoundPercent_Truncated(now, cap) == (100 * now) \div cap

\* round(100.0 * now / full) for full # 0: half away from zero
RoundPercent(now, cap) ==
  LET n == 100 * now
      a == IF n < 0 THEN -n ELSE n
      b == IF cap < 0 THEN -cap ELSE cap
      q == (2 * a + b) \div (2 * b)
  IN IF (n < 0) # (cap < 0) THEN -q ELSE q

\* the double-to-int conversion of NaN or an infinity is undefined: x86
\* yields INT_MIN, other targets 0 or INT_MAX.  One value stands for each:
\* below every threshold, zero, above every threshold.
UndefinedLevels == {-1, 0, LevelLimit + 1}

(* ------------------------------------------------------------------ *)
(* update_batteries                                                   *)
(* ------------------------------------------------------------------ *)
\* What the attribute files of one battery yield in one call: the status
\* string, and the now and full values with whether fopen/fscanf succeeded.
\* An attribute that is not reached (after an earlier failure, or the full
\* attribute of a capacity-only battery) is recorded as not read.
Unreadable == "unreadable"
Statuses == {POWER_SUPPLY_DISCHARGING, POWER_SUPPLY_FULL, "Charging"}
NowValues == 0..MaxNow
FullValues == {0, CapacityFull}

File(status, now_ok, now, full_ok, cap) ==
  [status |-> status, now_ok |-> now_ok, now |-> now,
   full_ok |-> full_ok, full |-> cap]

BatteryFiles(has_full) ==
  {File(Unreadable, FALSE, 0, FALSE, 0)}
  \cup {File(s, FALSE, 0, FALSE, 0) : s \in Statuses}
  \cup {File(s, TRUE, n, FALSE, 0) : s \in Statuses, n \in NowValues}
  \cup IF has_full
       THEN {File(s, TRUE, n, TRUE, f) :
               s \in Statuses, n \in NowValues, f \in FullValues \ {0}}
            \cup {File(s, TRUE, 0, TRUE, 0) : s \in Statuses}
       ELSE {}

\* one call reads the files of every battery in battery_names
Readings(n, has_full) == [1..n -> BatteryFiles(has_full)]
NoReadings == <<>>
NoDispatch == "none"

\* the loop body for battery i, from the values accumulated so far
ReadBattery(acc, f, has_full, required) ==
  IF f.status = Unreadable
  THEN IF required THEN [acc EXCEPT !.fatal = TRUE] ELSE acc
  ELSE
    LET flagged == [acc EXCEPT
          !.discharging = acc.discharging \/ (f.status = POWER_SUPPLY_DISCHARGING),
          !.full = acc.full /\ (f.status = POWER_SUPPLY_FULL)]
    IN IF ~f.now_ok
       THEN IF required THEN [flagged EXCEPT !.fatal = TRUE] ELSE flagged
       ELSE IF has_full /\ ~f.full_ok
       THEN IF required THEN [flagged EXCEPT !.fatal = TRUE] ELSE flagged
       ELSE [flagged EXCEPT
               !.energy_now = flagged.energy_now + f.now,
               !.energy_full = flagged.energy_full
                               + IF has_full THEN f.full ELSE CapacityFull]

RECURSIVE ReadBatteries(_, _, _, _, _)
ReadBatteries(acc, r, i, has_full, required) ==
  IF i > Len(r) \/ acc.fatal
  THEN acc
  ELSE ReadBatteries(ReadBattery(acc, r[i], has_full, required),
                     r, i + 1, has_full, required)

\* the sums and flags after the for loop; fatal when err() was called
Aggregate(r, has_full, required) ==
  ReadBatteries([fatal |-> FALSE, discharging |-> FALSE, full |-> TRUE,
                 energy_now |-> 0, energy_full |-> 0], r, 1, has_full, required)

\* battery_level = round(100.0 * energy_now / energy_full); with
\* energy_full = 0 the quotient is NaN or infinite and its conversion to int
\* is undefined
Levels(now, cap) ==
  IF cap = 0 THEN UndefinedLevels ELSE {RoundPercent(now, cap)}

\* update_batteries() as a step from the globals g = <<battery_discharging,
\* battery_full, battery_level, energy_now, energy_full>>: the globals after
\* the call and whether err() was called for a required battery
update_batteries(g, r, has_full, required) ==
  LET a == Aggregate(r, has_full, required) IN
  {[fatal |-> a.fatal, discharging |-> a.discharging, full |-> a.full,
    energy_now |-> a.energy_now, energy_full |-> a.energy_full,
    level |-> l] :
     l \in IF a.fatal THEN {g[3]} ELSE Levels(a.energy_now, a.energy_full)}

(* ------------------------------------------------------------------ *)
(* Process exit                                                       *)
(* ------------------------------------------------------------------ *)
\* if (notify_is_initted()) notify_uninit();
cleanup(initted) == IF initted THEN FALSE ELSE initted

\* the globals and locals as initialised at program start
InitImage ==
  /\ battery_discharging = FALSE
  /\ battery_full = TRUE
  /\ battery_state = STATE_AC
  /\ battery_level = 100
  /\ energy_full = 0
  /\ energy_now = 0
  /\ duration = 0
  /\ previous_discharging_status = FALSE
  /\ usr1_pending = FALSE
  /\ readings = NoReadings
  /\ dispatched = NoDispatch
  /\ closed = FALSE
  /\ previous_state = STATE_AC
  /\ same_snapshot = FALSE
  /\ polled = FALSE

\* how a process ends other than by exit(): killed by a signal, or stuck
KILLED == "killed"
HUNG == "hung"

\* the process stops running at position p with exit status code and the
\* notification library in state initted: what it held in memory is gone
Halt(p, code, initted) ==
  /\ pc' = p
  /\ exit_status' = code
  /\ notify_initted' = initted
  /\ battery_discharging' = FALSE
  /\ battery_full' = TRUE
  /\ battery_state' = STATE_AC
  /\ battery_level' = 100
  /\ energy_full' = 0
  /\ energy_now' = 0
  /\ duration' = 0
  /\ previous_discharging_status' = FALSE
  /\ usr1_pending' = FALSE
  /\ readings' = NoReadings
  /\ dispatched' = NoDispatch
  /\ closed' = FALSE
  /\ previous_state' = STATE_AC
  /\ same_snapshot' = FALSE
  /\ polled' = FALSE
  /\ UNCHANGED options

\* exit(code), also through err(), errx() and the return from main: the
\* atexit hook runs
Exit(code) == Halt("exited", code, cleanup(notify_initted))

(* ------------------------------------------------------------------ *)
(* validate_options                                                   *)
(* ------------------------------------------------------------------ *)
\* the highest warning level, against which -f is checked
lowlvl(w, c, d) == IF w # 0 \/ c # 0 THEN (IF w # 0 THEN w ELSE c) ELSE d

\* faulty variant: -f is checked against warning and critical only, never danger
OptionsValid_FullIgnoresDanger(w, c, d, f, m) ==
  /\ ~(w > LevelLimit \/ w < 0)
  /\ ~(c > LevelLimit \/ c < 0)
  /\ ~(d > LevelLimit \/ d < 0)
  /\ ~(f > LevelLimit \/ f < 0)
  /\ ~(m < 0 \/ m > MultiplierLimit)
  /\ ~(w # 0 /\ w <= c)
  /\ ~(c # 0 /\ c <= d)
  /\ ~(f # 0 /\ (w # 0 \/ c # 0) /\ f <= lowlvl(w, c, d))

\* TRUE when validate_options returns without calling errx()
OptionsValid(w, c, d, f, m) ==
  /\ ~(w > LevelLimit \/ w < 0)
  /\ ~(c > LevelLimit \/ c < 0)
  /\ ~(d > LevelLimit \/ d < 0)
  /\ ~(f > LevelLimit \/ f < 0)
  /\ ~(m < 0 \/ m > MultiplierLimit)
  /\ ~(w # 0 /\ w <= c)
  /\ ~(c # 0 /\ c <= d)
  /\ ~(f # 0 /\ f <= lowlvl(w, c, d))

validate_options ==
  /\ pc = "validate"
  /\ IF OptionsValid(warning, critical, danger, full, multiplier)
     THEN /\ pc' = "notify_init"
          /\ UNCHANGED <<options, battery, battery_state, duration,
                         previous_discharging_status, exit_status,
                         notify_initted, usr1_pending, observed>>
     ELSE Exit(EXIT_FAILURE)

(* ------------------------------------------------------------------ *)
(* main: the classification of one loop iteration                     *)
(* ------------------------------------------------------------------ *)
\* faulty variant: a danger level of 0 is not treated as disabled
DischargingState_ZeroDangerEnabled(level) ==
  IF level <= danger THEN STATE_DANGER
  ELSE IF critical # 0 /\ level <= critical THEN STATE_CRITICAL
  ELSE IF warning # 0 /\ level <= warning THEN STATE_WARNING
  ELSE STATE_DISCHARGING

\* the branch of the discharging path taken for a level
DischargingState(level) ==
  IF danger # 0 /\ level <= danger THEN STATE_DANGER
  ELSE IF critical # 0 /\ level <= critical THEN STATE_CRITICAL
  ELSE IF warning # 0 /\ level <= warning THEN STATE_WARNING
  ELSE STATE_DISCHARGING

\* faulty variant: only the level qualifies for FULL, not the all-full flag
FullRule_LevelOnly(state, level, all_full) ==
  (full # 0 /\ state # STATE_FULL) /\ level >= full

\* faulty variant: a full level of 0 is taken as a level, not as disabled
FullRule_ZeroIsALevel(state, level, all_full) ==
  state # STATE_FULL /\ (level >= full \/ all_full)

\* the condition of the first charging branch
FullRule(state, level, all_full) ==
  (full # 0 /\ state # STATE_FULL) /\ (level >= full \/ all_full)

\* faulty variant: charging messages enabled is all that is looked at
ChargingEdge_AlwaysOnCharger(discharging, previous) == show_charging_msg

\* show_charging_msg && battery_discharging != previous_discharging_status
ChargingEdge(discharging, previous) ==
  show_charging_msg /\ discharging # previous

\* faulty variant: the warning branch measures the distance to warning, not critical
Delay_WarningToWarning(s, level) ==
  IF (s = STATE_WARNING \/ s = STATE_DISCHARGING) /\ ~fixed
  THEN (level - warning) * multiplier
  ELSE multiplier

\* duration when the iteration ends in state s: multiplier, shortened in the
\* warning and the plain discharging branch unless fixed.  duration is an
\* unsigned int; it is kept here as the int of the same bits, so a negative
\* value stands for the unsigned value 2^32 larger.
Delay(s, level) ==
  IF s = STATE_WARNING /\ ~fixed
  THEN (level - critical) * multiplier
  ELSE IF s = STATE_DISCHARGING /\ ~fixed
  THEN (level - warning) * multiplier
  ELSE multiplier

\* faulty variant: level-triggered, the action is repeated while the state stays
EntryAction_LevelTriggered(s, old) ==
  IF s = STATE_DANGER
  THEN (IF dangercmd # "" THEN "dangercmd" ELSE NoDispatch)
  ELSE IF s = STATE_CRITICAL THEN "criticalmsg"
  ELSE "warningmsg"

\* what is done on taking the branch of state s from battery_state old
EntryAction(s, old) ==
  IF s = old THEN NoDispatch
  ELSE IF s = STATE_DANGER
  THEN (IF dangercmd # "" THEN "dangercmd" ELSE NoDispatch)
  ELSE IF s = STATE_CRITICAL THEN "criticalmsg"
  ELSE "warningmsg"

\* faulty variant: without a change of the discharging flag the state is kept
Classify_StateOnEdgeOnly(old, level, discharging, all_full, previous) ==
  IF discharging
  THEN LET s == DischargingState(level) IN
       IF s # STATE_DISCHARGING
       THEN [state |-> s, dispatched |-> EntryAction(s, old), closed |-> FALSE,
             duration |-> Delay(s, level)]
       ELSE [state |-> STATE_DISCHARGING,
             dispatched |-> IF ChargingEdge(discharging, previous)
                            THEN "dischargingmsg" ELSE NoDispatch,
             closed |-> ~ChargingEdge(discharging, previous) /\ old = STATE_FULL,
             duration |-> Delay(STATE_DISCHARGING, level)]
  ELSE IF FullRule(old, level, all_full)
       THEN [state |-> STATE_FULL, dispatched |-> "fullmsg", closed |-> FALSE,
             duration |-> Delay(STATE_FULL, level)]
       ELSE IF ChargingEdge(discharging, previous)
       THEN [state |-> STATE_AC, dispatched |-> "chargingmsg", closed |-> FALSE,
             duration |-> Delay(STATE_AC, level)]
       ELSE [state |-> old, dispatched |-> NoDispatch, closed |-> TRUE,
             duration |-> Delay(STATE_AC, level)]

\* the if/else chain of the loop body: new battery_state, message or command
\* dispatched, notify_notification_close called, duration
Classify(old, level, discharging, all_full, previous) ==
  IF discharging
  THEN LET s == DischargingState(level) IN
       IF s # STATE_DISCHARGING
       THEN [state |-> s, dispatched |-> EntryAction(s, old), closed |-> FALSE,
             duration |-> Delay(s, level)]
       ELSE [state |-> STATE_DISCHARGING,
             dispatched |-> IF ChargingEdge(discharging, previous)
                            THEN "dischargingmsg" ELSE NoDispatch,
             closed |-> ~ChargingEdge(discharging, previous) /\ old = STATE_FULL,
             duration |-> Delay(STATE_DISCHARGING, level)]
  ELSE IF FullRule(old, level, all_full)
       THEN [state |-> STATE_FULL, dispatched |-> "fullmsg", closed |-> FALSE,
             duration |-> Delay(STATE_FULL, level)]
       ELSE IF ChargingEdge(discharging, previous)
       THEN [state |-> STATE_AC, dispatched |-> "chargingmsg", closed |-> FALSE,
             duration |-> Delay(STATE_AC, level)]
       ELSE [state |-> STATE_AC, dispatched |-> NoDispatch, closed |-> TRUE,
             duration |-> Delay(STATE_AC, level)]

(* ------------------------------------------------------------------ *)
(* main                                                               *)
(* ------------------------------------------------------------------ *)
\* if (show_notifications) { if (!notify_init(appname)) err(...); ... }
notify_init ==
  /\ pc = "notify_init"
  /\ \E ok \in BOOLEAN :
       IF show_notifications /\ ~ok
       THEN Exit(EXIT_FAILURE)
       ELSE /\ notify_initted' = show_notifications
            /\ pc' = "first_update"
            /\ UNCHANGED <<options, battery, battery_state, duration,
                           previous_discharging_status, exit_status,
                           usr1_pending, observed>>

\* the update_batteries() call before the loop
first_update ==
  /\ pc = "first_update"
  /\ \E r \in Readings(amount_batteries, full_attribute) :
     \E u \in update_batteries(battery, r, full_attribute, battery_required) :
       IF u.fatal
       THEN Exit(EXIT_FAILURE)
       ELSE /\ readings' = r
            /\ battery_discharging' = u.discharging
            /\ battery_full' = u.full
            /\ energy_now' = u.energy_now
            /\ energy_full' = u.energy_full
            /\ battery_level' = u.level
            /\ pc' = "update"
            /\ UNCHANGED <<options, battery_state, duration,
                           previous_discharging_status, exit_status,
                           notify_initted, usr1_pending, dispatched, closed,
                           previous_state, same_snapshot, polled>>

\* the head of the loop body: previous_discharging_status, update_batteries(),
\* duration = multiplier
loop_update ==
  /\ pc = "update"
  /\ \E r \in Readings(amount_batteries, full_attribute) :
     \E u \in update_batteries(battery, r, full_attribute, battery_required) :
       IF u.fatal
       THEN Exit(EXIT_FAILURE)
       ELSE /\ previous_discharging_status' = battery_discharging
            /\ readings' = r
            /\ battery_discharging' = u.discharging
            /\ battery_full' = u.full
            /\ energy_now' = u.energy_now
            /\ energy_full' = u.energy_full
            /\ battery_level' = u.level
            /\ duration' = multiplier
            /\ previous_state' = battery_state
            /\ dispatched' = NoDispatch
            /\ closed' = FALSE
            /\ same_snapshot' = (/\ polled
                                 /\ u.level = battery_level
                                 /\ u.discharging = battery_discharging
                                 /\ u.full = battery_full
                                 /\ u.energy_now = energy_now
                                 /\ u.energy_full = energy_full)
            /\ pc' = "classify"
            /\ UNCHANGED <<options, battery_state, exit_status, notify_initted,
                           usr1_pending, polled>>

\* the if/else chain of the loop body
loop_classify ==
  /\ pc = "classify"
  /\ LET c == Classify(battery_state, battery_level, battery_discharging,
                       battery_full, previous_discharging_status) IN
       /\ battery_state' = c.state
       /\ dispatched' = c.dispatched
       /\ closed' = c.closed
       /\ duration' = c.duration
  /\ readings' = NoReadings
  /\ polled' = TRUE
  /\ pc' = "wait"
  /\ UNCHANGED <<options, battery, previous_discharging_status, exit_status,
                 notify_initted, usr1_pending, previous_state, same_snapshot>>

\* if (run_once) break; ... return EXIT_SUCCESS;
loop_break ==
  /\ pc = "wait"
  /\ run_once
  /\ Exit(EXIT_SUCCESS)

\* faulty variant: the wait returns whether or not a SIGUSR1 is pending
loop_sigwaitinfo_Polling ==
  /\ pc = "wait"
  /\ ~run_once
  /\ multiplier = 0
  /\ usr1_pending' = FALSE
  /\ pc' = "update"
  /\ UNCHANGED <<options, battery, battery_state, duration,
                 previous_discharging_status, exit_status, notify_initted,
                 observed>>

\* sigwaitinfo(&sigs, NULL): returns when SIGUSR1 is pending, and consumes it
loop_sigwaitinfo ==
  /\ pc = "wait"
  /\ ~run_once
  /\ multiplier = 0
  /\ usr1_pending
  /\ usr1_pending' = FALSE
  /\ pc' = "update"
  /\ UNCHANGED <<options, battery, battery_state, duration,
                 previous_discharging_status, exit_status, notify_initted,
                 observed>>

\* faulty variant: the wait is entered before run_once is looked at
loop_sigtimedwait_BeforeBreak ==
  /\ pc = "wait"
  /\ multiplier # 0
  /\ usr1_pending' = FALSE
  /\ pc' = "update"
  /\ UNCHANGED <<options, battery, battery_state, duration,
                 previous_discharging_status, exit_status, notify_initted,
                 observed>>

\* sigtimedwait(&sigs, NULL, &timeout): consumes a pending SIGUSR1, else
\* returns after duration seconds
loop_sigtimedwait ==
  /\ pc = "wait"
  /\ ~run_once
  /\ multiplier # 0
  /\ usr1_pending' = FALSE
  /\ pc' = "update"
  /\ UNCHANGED <<options, battery, battery_state, duration,
                 previous_discharging_status, exit_status, notify_initted,
                 observed>>

(* ------------------------------------------------------------------ *)
(* Signals                                                            *)
(* ------------------------------------------------------------------ *)
\* faulty variant: SIGUSR1 is not blocked, and is noticed only in a wait
sigusr1_Unblocked ==
  /\ pc # "exited"
  /\ usr1_pending' = (usr1_pending \/ pc = "wait")
  /\ UNCHANGED <<options, battery, battery_state, duration,
                 previous_discharging_status, pc, exit_status, notify_initted,
                 observed>>

\* SIGUSR1 is blocked by sigprocmask: it stays pending until a wait takes it
sigusr1 ==
  /\ pc # "exited"
  /\ usr1_pending' = TRUE
  /\ UNCHANGED <<options, battery, battery_state, duration,
                 previous_discharging_status, pc, exit_status, notify_initted,
                 observed>>

\* main is inside a library function that is not async-signal-safe: the
\* file and string functions of parse_args, find_batteries and
\* update_batteries, libnotify and system() in the dispatch.  The comparisons
\* of the if/else chain and the two signal waits are safe.
InLibraryCall ==
  \/ pc \in {"validate", "notify_init", "first_update", "update"}
  \/ /\ pc = "classify"
     /\ LET c == Classify(battery_state, battery_level, battery_discharging,
                          battery_full, previous_discharging_status) IN
          c.dispatched # NoDispatch \/ c.closed

\* SIGTERM or SIGINT, which are not blocked: exit(EXIT_SUCCESS), which runs
\* cleanup().  exit() is not async-signal-safe: called from a handler that
\* interrupted an unsafe function its behaviour is undefined, and besides the
\* exit the process can block on a lock main holds or be killed on the
\* interrupted function's broken state, cleanup() not completing.
signal_handler ==
  /\ pc \notin {"exited", HUNG}
  /\ \/ Exit(EXIT_SUCCESS)
     \/ InLibraryCall /\ Halt(HUNG, "running", notify_initted)
     \/ InLibraryCall /\ Halt("exited", KILLED, notify_initted)

(* ------------------------------------------------------------------ *)
(* Specifications                                                     *)
(* ------------------------------------------------------------------ *)
InitProgram ==
  /\ InitImage
  /\ pc = "validate"
  /\ exit_status = "running"
  /\ notify_initted = FALSE
  /\ cycles = 0
  /\ wakes = 0
  /\ merged = 0

\* parse_args: -f and -p also set fixed
ParsedFixed == (full # 0 \/ show_charging_msg) => fixed

\* the polling loop on one battery that has only the capacity attribute
Init ==
  /\ InitProgram
  /\ warning \in 0..MaxThreshold
  /\ critical \in 0..MaxThreshold
  /\ danger \in 0..MaxThreshold
  /\ full \in {0, MaxNow}
  /\ multiplier \in {0, 2}
  /\ fixed \in BOOLEAN
  /\ show_charging_msg \in BOOLEAN
  /\ ParsedFixed
  \* dangercmd is read only in the danger branch, which needs danger # 0
  /\ dangercmd \in IF danger = 0 THEN {""} ELSE {"", "poweroff"}
  /\ run_once \in BOOLEAN
  /\ battery_required \in BOOLEAN
  /\ show_notifications = TRUE
  /\ amount_batteries = 1
  /\ full_attribute = FALSE

\* the history is kept only under SpecSignals
Next ==
  \/ validate_options /\ UNCHANGED history
  \/ notify_init /\ UNCHANGED history
  \/ first_update /\ UNCHANGED history
  \/ loop_update /\ UNCHANGED history
  \/ loop_classify /\ UNCHANGED history
  \/ loop_break /\ UNCHANGED history
  \/ loop_sigwaitinfo /\ UNCHANGED history
  \/ loop_sigtimedwait /\ UNCHANGED history
  \/ sigusr1 /\ UNCHANGED history
  \/ signal_handler /\ UNCHANGED history

Spec == Init /\ [][Next]_vars

\* validate_options alone, on option values in and around the accepted ranges
InitValidate ==
  /\ InitProgram
  /\ warning \in {-1} \cup 0..MaxThreshold \cup {LevelLimit, LevelLimit + 1}
  /\ critical \in {-1} \cup 0..MaxThreshold \cup {LevelLimit, LevelLimit + 1}
  /\ danger \in {-1} \cup 0..MaxThreshold \cup {LevelLimit, LevelLimit + 1}
  /\ full \in {-1} \cup 0..MaxThreshold \cup {LevelLimit, LevelLimit + 1}
  /\ multiplier \in {-1, 0, 1, MultiplierLimit, MultiplierLimit + 1}
  /\ fixed = TRUE
  /\ show_charging_msg = FALSE
  /\ dangercmd = ""
  /\ run_once = FALSE
  /\ battery_required = TRUE
  /\ show_notifications = TRUE
  /\ amount_batteries = 1
  /\ full_attribute = FALSE

NextValidate == validate_options /\ UNCHANGED history

SpecValidate == InitValidate /\ [][NextValidate]_vars

\* update_batteries on up to MaxBatteries batteries, with or without a full
\* attribute, under one accepted set of thresholds
InitAggregate ==
  /\ InitProgram
  /\ warning = 2
  /\ critical = 1
  /\ danger = 0
  /\ full = 0
  /\ multiplier = 2
  /\ fixed = FALSE
  /\ show_charging_msg = FALSE
  /\ dangercmd = ""
  /\ run_once = FALSE
  /\ battery_required \in BOOLEAN
  /\ show_notifications = TRUE
  /\ amount_batteries \in 1..MaxBatteries
  /\ full_attribute \in BOOLEAN

NextAggregate ==
  \/ validate_options /\ UNCHANGED history
  \/ notify_init /\ UNCHANGED history
  \/ first_update /\ UNCHANGED history

SpecAggregate == InitAggregate /\ [][NextAggregate]_vars

\* the loop and its signals with the history kept, on one required battery
\* under one accepted set of thresholds, for MaxCycles iterations and
\* MaxWakes signals
InitSignals ==
  /\ InitProgram
  /\ warning = 2
  /\ critical = 1
  /\ danger = 0
  /\ full = 0
  /\ multiplier \in {0, 2}
  /\ fixed = FALSE
  /\ show_charging_msg = FALSE
  /\ dangercmd = ""
  /\ run_once \in BOOLEAN
  /\ battery_required = TRUE
  /\ show_notifications \in BOOLEAN
  /\ amount_batteries = 1
  /\ full_attribute = FALSE

NextSignals ==
  \/ validate_options /\ UNCHANGED history
  \/ notify_init /\ UNCHANGED history
  \/ first_update /\ UNCHANGED history
  \/ /\ cycles < MaxCycles
     /\ loop_update
     /\ cycles' = cycles + 1
     /\ UNCHANGED <<wakes, merged>>
  \/ loop_classify /\ UNCHANGED history
  \/ loop_break /\ UNCHANGED history
  \/ loop_sigwaitinfo /\ UNCHANGED history
  \/ loop_sigtimedwait /\ UNCHANGED history
  \/ /\ wakes < MaxWakes
     /\ sigusr1
     /\ wakes' = wakes + 1
     /\ merged' = IF usr1_pending THEN merged + 1 ELSE merged
     /\ UNCHANGED cycles
  \/ signal_handler /\ UNCHANGED history

SpecSignals == InitSignals /\ [][NextSignals]_vars

(* ------------------------------------------------------------------ *)
(* Properties                                                         *)
(* ------------------------------------------------------------------ *)
\* a loop iteration has classified and dispatched, and is about to wait
CycleDone == pc = "wait"

\* the options passed validate_options
Accepted == pc # "validate" /\ ~(pc = "exited" /\ exit_status = EXIT_FAILURE)

\* a loop iteration has classified and dispatched a sample that has a level
SampledCycleDone == CycleDone /\ energy_full # 0

\* C1: when two consecutive polling cycles observe the same snapshot (level,
\* discharging flag, all-full flag), the later cycle dispatches no message and
\* no command.  Stated for two cycles that read the same sums and so have the
\* same level.
C1_NoRepeatOnSameSnapshot ==
  (SampledCycleDone /\ same_snapshot) => dispatched = NoDispatch

\* C2: in every polling cycle the danger command (when one is configured), the
\* critical message and the warning message are dispatched exactly when the
\* cycle classifies the battery into that state and the state carried over
\* from the previous cycle was a different one.
C2_EntryActionOnEntryOnly ==
  CycleDone =>
    /\ dispatched = "dangercmd"
         <=> (/\ battery_state = STATE_DANGER
              /\ previous_state # STATE_DANGER
              /\ dangercmd # "")
    /\ dispatched = "criticalmsg"
         <=> (battery_state = STATE_CRITICAL /\ previous_state # STATE_CRITICAL)
    /\ dispatched = "warningmsg"
         <=> (battery_state = STATE_WARNING /\ previous_state # STATE_WARNING)

\* C2 witness: a cycle enters WARNING from DISCHARGING and dispatches the
\* warning message, with a danger level configured below it.
C2_Witness ==
  /\ SampledCycleDone
  /\ previous_state = STATE_DISCHARGING
  /\ battery_state = STATE_WARNING
  /\ dispatched = "warningmsg"
  /\ danger # 0

\* C3: while discharging the new state is the first match of DANGER (danger
\* # 0 and level <= danger), CRITICAL (critical # 0 and level <= critical),
\* WARNING (warning # 0 and level <= warning), else DISCHARGING; a threshold
\* of 0 never selects its state.
C3_DischargingPriority ==
  (CycleDone /\ battery_discharging) =>
    LET inDanger == danger # 0 /\ battery_level <= danger
        inCritical == critical # 0 /\ battery_level <= critical
        inWarning == warning # 0 /\ battery_level <= warning
    IN /\ battery_state \in {STATE_DANGER, STATE_CRITICAL, STATE_WARNING,
                             STATE_DISCHARGING}
       /\ battery_state = STATE_DANGER <=> inDanger
       /\ battery_state = STATE_CRITICAL <=> (~inDanger /\ inCritical)
       /\ battery_state = STATE_WARNING
            <=> (~inDanger /\ ~inCritical /\ inWarning)
       /\ battery_state = STATE_DISCHARGING
            <=> (~inDanger /\ ~inCritical /\ ~inWarning)
       /\ (danger = 0 => battery_state # STATE_DANGER)
       /\ (critical = 0 => battery_state # STATE_CRITICAL)
       /\ (warning = 0 => battery_state # STATE_WARNING)

\* C3 witness: danger is disabled, critical is configured and the level is
\* below it: the cycle ends in CRITICAL.
C3_Witness ==
  /\ SampledCycleDone
  /\ battery_discharging
  /\ danger = 0
  /\ critical # 0
  /\ battery_level < critical
  /\ battery_state = STATE_CRITICAL

\* C4: when not discharging, with full # 0, the previous state not FULL, and
\* level >= full or every battery reporting Full, the new state is FULL and
\* the full message is dispatched; with full = 0 the state is never FULL.
C4_FullRule ==
  /\ (/\ CycleDone
      /\ ~battery_discharging
      /\ full # 0
      /\ previous_state # STATE_FULL
      /\ (battery_level >= full \/ battery_full))
       => (battery_state = STATE_FULL /\ dispatched = "fullmsg")
  /\ full = 0 => battery_state # STATE_FULL

\* C4 witness: FULL is entered on the all-full flag alone, below the full level.
C4_Witness ==
  /\ SampledCycleDone
  /\ full # 0
  /\ battery_full
  /\ battery_level < full
  /\ battery_state = STATE_FULL
  /\ dispatched = "fullmsg"

\* C5: the delay at the end of a cycle that has a level (energy_full # 0) is
\* multiplier when fixed is set or multiplier = 0; otherwise (level -
\* critical) * multiplier in WARNING, (level - warning) * multiplier in
\* DISCHARGING, and multiplier in AC, FULL, CRITICAL and DANGER.
C5_Delay ==
  SampledCycleDone =>
    duration =
      CASE fixed \/ multiplier = 0 -> multiplier
        [] battery_state = STATE_WARNING ->
             (battery_level - critical) * multiplier
        [] battery_state = STATE_DISCHARGING ->
             (battery_level - warning) * multiplier
        [] OTHER -> multiplier

\* C5 witness: an adaptive delay in WARNING that differs from multiplier and
\* from the DISCHARGING formula.
C5_Witness ==
  /\ SampledCycleDone
  /\ ~fixed
  /\ battery_state = STATE_WARNING
  /\ critical # 0
  /\ duration = (battery_level - critical) * multiplier
  /\ duration # multiplier
  /\ duration # (battery_level - warning) * multiplier

\* C6: for every accepted configuration with multiplier > 0 and every level in
\* 0..100, the delay passed to the timed wait is strictly positive.
C6_PositiveDelay ==
  (/\ SampledCycleDone
   /\ multiplier > 0
   /\ battery_level \in 0..LevelLimit)
    => duration > 0

\* C7: every accepted configuration has its nonzero thresholds in strict
\* order warning > critical > danger, for any two of them that are nonzero.
C7_ThresholdsOrdered ==
  Accepted =>
    /\ (warning # 0 /\ critical # 0) => warning > critical
    /\ (critical # 0 /\ danger # 0) => critical > danger
    /\ (warning # 0 /\ danger # 0) => warning > danger

\* the ranges and the two orderings that C8 names
RangesAndOrder ==
  /\ warning \in 0..LevelLimit
  /\ critical \in 0..LevelLimit
  /\ danger \in 0..LevelLimit
  /\ full \in 0..LevelLimit
  /\ multiplier \in 0..MultiplierLimit
  /\ (warning # 0 /\ critical # 0) => warning > critical
  /\ (critical # 0 /\ danger # 0) => critical > danger

Highest(a, b) == IF a > b THEN a ELSE b

\* C8 as claimed: validation accepts exactly the configurations within the
\* ranges, ordered, and with full (if nonzero) above the highest nonzero of
\* warning and critical; any other configuration is a fatal error.
C8_AcceptedExactly ==
  pc # "validate" =>
    IF /\ RangesAndOrder
       /\ (full # 0 /\ (warning # 0 \/ critical # 0))
            => full > Highest(warning, critical)
    THEN pc = "notify_init"
    ELSE pc = "exited" /\ exit_status = EXIT_FAILURE

\* C8 as amended: as above, and when warning and critical are both 0 a nonzero
\* full must also exceed danger.
C8_AcceptedExactlyAmended ==
  pc # "validate" =>
    IF /\ RangesAndOrder
       /\ full # 0 =>
            full > (IF warning # 0 \/ critical # 0
                    THEN Highest(warning, critical) ELSE danger)
    THEN pc = "notify_init"
    ELSE pc = "exited" /\ exit_status = EXIT_FAILURE

\* C8 witness: warning and critical are disabled and full does not exceed
\* danger: the configuration is rejected.
C8_Witness ==
  /\ pc = "exited"
  /\ exit_status = EXIT_FAILURE
  /\ RangesAndOrder
  /\ warning = 0
  /\ critical = 0
  /\ full # 0
  /\ full <= danger

\* C9: when the summed full capacity is zero, aggregation ends in a fatal
\* error: the loop never holds a sample whose energy_full is 0.
C9_ZeroCapacityIsFatal ==
  pc \in {"update", "classify", "wait"} => energy_full # 0

\* a battery for which an attribute read failed in this call
FailedRead(f) ==
  \/ f.status = Unreadable
  \/ ~f.now_ok
  \/ (full_attribute /\ ~f.full_ok)

\* the batteries of this call whose reads all succeeded
Reporting == {i \in DOMAIN readings : ~FailedRead(readings[i])}

\* C10: when batteries are not required, a battery for which any attribute
\* read fails contributes neither to the discharging flag nor to the full flag
\* of that sample (they are those of the batteries read in full).
C10_FailedBatteryExcluded ==
  (pc = "update" /\ ~battery_required) =>
    /\ battery_discharging
         = (\E i \in Reporting : readings[i].status = POWER_SUPPLY_DISCHARGING)
    /\ battery_full
         = (\A i \in Reporting : readings[i].status = POWER_SUPPLY_FULL)

\* the sum of value(readings[i]) over the batteries i..Len(readings) of this
\* call whose reads all succeeded
RECURSIVE SumFrom(_, _)
SumFrom(value(_), i) ==
  IF i > Len(readings)
  THEN 0
  ELSE (IF i \in Reporting THEN value(readings[i]) ELSE 0) + SumFrom(value, i + 1)

NowOf(f) == f.now
FullOf(f) == IF full_attribute THEN f.full ELSE CapacityFull
SumNow == SumFrom(NowOf, 1)
SumFull == SumFrom(FullOf, 1)

\* C11: with a nonzero total full capacity the level is
\* 100 * (sum of now) / (sum of full) rounded half away from zero, a
\* percentage-only battery counting its percentage as now and 100 as full:
\* level - 1/2 <= 100 * now / full < level + 1/2 (the sums are never negative).
C11_LevelIsRoundedRatio ==
  (pc = "update" /\ SumFull # 0) =>
    /\ energy_now = SumNow
    /\ energy_full = SumFull
    /\ (2 * battery_level - 1) * SumFull <= 200 * SumNow
    /\ 200 * SumNow < (2 * battery_level + 1) * SumFull

\* two percentage-only batteries whose ratio lies exactly on a half
C11_Witness ==
  /\ pc = "update"
  /\ ~full_attribute
  /\ Cardinality(Reporting) = 2
  /\ SumFull = 2 * CapacityFull
  /\ 200 * SumNow = (2 * battery_level - 1) * SumFull
  /\ battery_level > 0

\* update_batteries has just returned: the files it read are still at hand
Aggregated == pc \in {"update", "classify"} /\ readings # NoReadings

\* C12: after each aggregation, the first and every later one, the
\* discharging flag is true exactly when some reporting battery has status
\* Discharging and the full flag exactly when every reporting battery has
\* status Full, whatever the flags of the previous sample were.
C12_FlagsFromReportingDevices ==
  Aggregated =>
    /\ battery_discharging
         <=> \E i \in Reporting : readings[i].status = POWER_SUPPLY_DISCHARGING
    /\ battery_full
         <=> \A i \in Reporting : readings[i].status = POWER_SUPPLY_FULL

\* C13: with run_once the loop classifies and dispatches once only, and from
\* the end of that cycle the program goes nowhere but to its exit with
\* success: it never returns from a wait to sample again, for multiplier 0
\* as for any other.
C13_RunOnce ==
  [][run_once =>
       /\ (pc = "classify" /\ pc' = "wait" => ~polled)
       /\ (pc = "wait" /\ pc' # "wait" =>
             pc' = "exited" /\ exit_status' = EXIT_SUCCESS)]_vars

\* the one cycle of a run_once run has been dispatched, in event-only mode
C13_Witness ==
  /\ run_once
  /\ multiplier = 0
  /\ CycleDone
  /\ polled
  /\ ENABLED loop_break

\* the loop waits for SIGUSR1 alone
EventOnly == multiplier = 0 /\ ~run_once

InLoop == pc \in {"update", "classify", "wait"}

\* C15: SIGTERM or SIGINT, at whatever point of the loop it arrives, ends the
\* process with exit status success and libnotify uninitialised, and an
\* exited process takes no further step of the loop.
C15_TerminationShutsDown ==
  [][/\ InLoop /\ signal_handler =>
          pc' = "exited" /\ exit_status' = EXIT_SUCCESS /\ ~notify_initted'
     /\ pc = "exited" => pc' = "exited"]_vars

\* C16: battery_state at the end of an iteration is the same function of
\* battery_state on entry, the sample and the options whatever the discharging
\* flag of the previous sample was: no other part of the history enters it.
C16_StateIgnoresHistory ==
  CycleDone =>
    \A previous \in BOOLEAN :
      battery_state = Classify(previous_state, battery_level, battery_discharging,
                               battery_full, previous).state

\* an iteration whose message came from the change of the discharging flag
C16_Witness ==
  /\ CycleDone
  /\ show_charging_msg
  /\ battery_discharging # previous_discharging_status
  /\ previous_state # STATE_AC
  /\ battery_state = STATE_AC
  /\ dispatched = "chargingmsg"

\* C17: on external power when the FULL rule does not apply: with charging
\* messages enabled and a discharging flag that differs from the previous
\* sample's the state becomes AC and the charging message is sent; otherwise
\* the state becomes AC, nothing is sent and the notification is closed.
\* When the FULL rule applies neither happens: the state becomes FULL.
C17_ChargingPath ==
  (CycleDone /\ ~battery_discharging) =>
    IF (full # 0 /\ previous_state # STATE_FULL)
         /\ (battery_level >= full \/ battery_full)
    THEN battery_state = STATE_FULL /\ dispatched = "fullmsg" /\ ~closed
    ELSE IF show_charging_msg /\ previous_discharging_status
    THEN battery_state = STATE_AC /\ dispatched = "chargingmsg" /\ ~closed
    ELSE battery_state = STATE_AC /\ dispatched = NoDispatch /\ closed

\* the charger was plugged in below the full level, charging messages enabled,
\* a full level configured
C17_Witness ==
  /\ CycleDone
  /\ ~battery_discharging
  /\ previous_discharging_status
  /\ show_charging_msg
  /\ full # 0
  /\ battery_level < full
  /\ ~battery_full
  /\ battery_state = STATE_AC
  /\ dispatched = "chargingmsg"

\* the SIGUSR1 signals that a wait has taken: every iteration but the first
\* starts from one
Consumed == IF pc = "update" THEN cycles ELSE cycles - 1

\* C18: a SIGUSR1 is never lost.  One that is pending during a wait ends the
\* wait; one that is sent at any other point is pending after it and stays
\* pending until a wait takes it; and signals sent while one is pending are
\* merged with it: in event-only mode every signal sent has been taken by a
\* wait, is pending, or was merged, so that signals pending together start
\* one iteration.
C18_WakeNotLost ==
  [][/\ (pc = "wait" /\ ~run_once /\ usr1_pending) =>
          ENABLED (loop_sigwaitinfo \/ loop_sigtimedwait)
     /\ wakes' # wakes => usr1_pending'
     /\ (usr1_pending /\ ~usr1_pending' /\ pc' \notin {"exited", HUNG}) =>
          pc = "wait" /\ pc' = "update"
     /\ (pc = "wait" /\ pc' = "update") => ~usr1_pending'
     /\ (EventOnly /\ InLoop) =>
          wakes = Consumed + merged + (IF usr1_pending THEN 1 ELSE 0)]_vars

\* three signals, two of them pending together, have started two further
\* iterations after the first
C18_Witness ==
  /\ EventOnly
  /\ CycleDone
  /\ ~usr1_pending
  /\ wakes = 3
  /\ merged = 1
  /\ cycles = 3

\* the configured thresholds that a discharging battery at this level has yet
\* to reach
ThresholdsBelow(level) ==
  {t \in {warning, critical, danger} : t # 0 /\ t < level}

\* C19: in adaptive mode (no fixed, multiplier > 0) the delay chosen in state
\* WARNING or DISCHARGING is at most (level - t) * multiplier for t the
\* highest configured threshold below the level, whichever of warning and
\* critical are disabled.
C19_NoOversleep ==
  (/\ SampledCycleDone
   /\ ~fixed
   /\ multiplier > 0
   /\ battery_state \in {STATE_WARNING, STATE_DISCHARGING}
   /\ ThresholdsBelow(battery_level) # {}) =>
    \A t \in ThresholdsBelow(battery_level) :
      (\A u \in ThresholdsBelow(battery_level) : u <= t) =>
        duration <= (battery_level - t) * multiplier

\* C20: at the end of every iteration battery_state is one of DISCHARGING,
\* WARNING, CRITICAL, DANGER exactly when the sample's discharging flag is
\* set and one of AC, FULL exactly when it is not, and it is FULL only when a
\* full level is configured.
C20_StateMatchesFlag ==
  CycleDone =>
    /\ battery_state \in {STATE_DISCHARGING, STATE_WARNING, STATE_CRITICAL,
                          STATE_DANGER} <=> battery_discharging
    /\ battery_state \in {STATE_AC, STATE_FULL} <=> ~battery_discharging
    /\ battery_state = STATE_FULL => full # 0

\* FULL was held, and the battery has gone to discharging below the warning
\* level
C20_Witness ==
  /\ CycleDone
  /\ previous_state = STATE_FULL
  /\ battery_discharging
  /\ battery_state = STATE_WARNING
  /\ full # 0

====
